---- MODULE Spec2Model ----
(***************************************************************************)
(* Model of the authenticated request pipeline of aioeloverblik            *)
(* (src/src/aioeloverblik/client.py, class BaseClient): the cached access  *)
(* token and its expiry, _get_access_token, _decode_token_expiry and       *)
(* _request with its single 401 retry.                                     *)
(*                                                                         *)
(* Calls are coroutines on one event loop: a call runs atomically between  *)
(* two awaits, and the only awaits that suspend are the token exchange     *)
(* (client.py:65) and the dispatch to the target endpoint (client.py:111). *)
(* An action is therefore the code between two suspensions.                *)
(*                                                                         *)
(* Values of mixed Python type are records tagged by the field j.          *)
(* An optional value is a sequence of length 0 (None) or 1.                *)
(***************************************************************************)
EXTENDS Integers, Sequences, FiniteSets

(***************************************************************************)
(* Bounds of the model.                                                    *)
(***************************************************************************)
\* time.time() ranges over 0..MaxTime
MaxTime == 2

\* the concurrent callers of one client instance
Calls == {1, 2}

(***************************************************************************)
(* Program constants.                                                      *)
(***************************************************************************)
\* client.py:56  "time.time() + 60"
Margin == 60

(***************************************************************************)
(* Tokens.  A token string is the sequence of its "."-separated segments   *)
(* (token.split("."), client.py:79); a segment is named by what its        *)
(* base64url decoding holds.                                               *)
(***************************************************************************)
None == [j |-> "none"]
Str(segs) == [j |-> "str", segs |-> segs]

\* the exp claims carried by the well-formed payload segments
ExpOf(seg) ==
    CASE seg = "exp62" -> 62
      [] seg = "exp64" -> 64
      [] OTHER -> 0

\* client.py:84-87: pad, base64url-decode, json.loads, claims.get("exp", 0), float().
\* <<>> when one of these raises, <<e>> when they produce the number e.
\*   "bad64"   not base64url (binascii.Error)
\*   "nojson"  base64url of bytes that are not JSON (also "": json.loads(b"") raises)
\*   "arr"     base64url of a JSON array (no .get: AttributeError)
\*   "expnull" base64url of {"exp": null} (float(None): TypeError)
\*   "hdr"     base64url of {"alg": "none"}, the header segment of create_jwt
\*             (conftest.py:11): an object without exp, claims.get default 0
\*   "noexp"   base64url of {"sub": "x"}: another object without exp
\*   "exp62", "exp64"  base64url of {"exp": 62}, {"exp": 64}
\*   "exp64dirty"  "exp64" with four characters from outside the base64url
\*             alphabet inside ("eyJl!!!!eHAiOiA2NH0"): urlsafe_b64decode does
\*             not validate, it drops them and decodes {"exp": 64}
\*   "sig"     "signature" (conftest.py:13): nine data characters, not
\*             base64url (binascii.Error)
\*   "jwt"     decodes to two bytes that are not UTF-8 (UnicodeDecodeError)
ClaimsExp(seg) ==
    CASE seg \in {"exp62", "exp64"} -> <<ExpOf(seg)>>
      [] seg = "exp64dirty" -> <<64>>
      [] seg \in {"hdr", "noexp"} -> <<0>>
      [] OTHER -> <<>>

\* client.py:76-90  _decode_token_expiry
DecodeTokenExpiry(token) ==
    IF token.j # "str" THEN 0                    \* None.split: AttributeError, caught
    ELSE IF Len(token.segs) < 2 THEN 0             \* client.py:80-81
    ELSE IF ClaimsExp(token.segs[2]) = <<>> THEN 0 \* client.py:88-90
    ELSE ClaimsExp(token.segs[2])[1]               \* client.py:87

\* Python truth value of self._access_token (client.py:56): None and "" are false
Truthy(token) == token.j = "str" /\ token.segs # <<"">>

\* the strings the token endpoint may put in "result"
T64 == Str(<<"hdr", "exp64", "sig">>)
T62 == Str(<<"hdr", "exp62", "sig">>)
TOpaque == Str(<<"jwt">>)
Tokens == {T64, T62, TOpaque}

(***************************************************************************)
(* JSON documents and HTTP responses.                                      *)
(***************************************************************************)
\* a body that json() cannot decode (JSONDecodeError)
Invalid == [j |-> "invalid"]
\* a JSON array
JArr == [j |-> "arr"]
\* a JSON object of the envelope shape: success is "true", "false", "null" or
\* "absent"; errorCode, errorText and result are optional
Envelope(success, code, text, result) ==
    [j |-> "obj", success |-> success, errorCode |-> code, errorText |-> text,
     result |-> result]

\* no response at all: httpx raises a RequestError (connect error, timeout)
NetFail == [net |-> FALSE]
Http(status, ctype, body) ==
    [net |-> TRUE, status |-> status, ctype |-> ctype, body |-> body]

\* content-type header values.  client.py:116 asks whether "application/json"
\* occurs anywhere in the value, so a value is written as the sequence of the
\* pieces it is cut into at the occurrences of "application/json": each
\* occurrence is a piece of its own, the text before, between and after the
\* occurrences are the other pieces; <<>> is a response without the header
\* (headers.get default "", client.py:115)
CtJson == <<"application/json">>
CtJsonCharset == <<"application/json", "; charset=utf-8">>
CtCsv == <<"text/csv">>
CtAbsent == <<>>
\* "application/json-seq", a media type of its own (RFC 7464)
CtJsonSeq == <<"application/json", "-seq">>
\* "text/plain; x=application/json": the media type is text/plain
CtTextParam == <<"text/plain; x=", "application/json">>
\* "Application/JSON": the media type application/json in another case (media
\* types compare case-insensitively); "application/json" does not occur in it
CtJsonUpper == <<"Application/JSON">>
CTypes == {CtJsonCharset, CtCsv, CtAbsent}

\* bodies of the target endpoint: the raw text and the document it parses to
Body(text, doc) == [text |-> text, json |-> doc]
Payload == <<[j |-> "payload"]>>
BOk == Body("ok", Envelope("true", <<>>, <<>>, Payload))
BFail42 == Body("fail42", Envelope("false", <<42>>, <<"denied">>, <<>>))
BFailBare == Body("failbare", Envelope("false", <<>>, <<>>, <<>>))
BNullFlag == Body("nullflag", Envelope("null", <<0>>, <<>>, Payload))
BNoFlag == Body("noflag", Envelope("absent", <<>>, <<>>, Payload))
BList == Body("list", JArr)
BCsv == Body("csv", Invalid)
\* {"success": false, "errorCode": 7, "errorText": ""}
BFailEmptyText == Body("failempty", Envelope("false", <<7>>, <<"">>, <<>>))
Bodies == {BOk, BFail42, BFailBare, BNullFlag, BNoFlag, BList, BCsv}

ErrorStatuses == {302, 401, 404, 429, 500, 503}
TargetResponses ==
    {NetFail}
    \cup {Http(200, ct, b) : ct \in CTypes, b \in Bodies}
    \cup {Http(201, ct, b) : ct \in CTypes, b \in {BOk, BFail42}}
    \cup {Http(200, CtJsonCharset, BFailEmptyText)}
    \cup {Http(200, ct, b) : ct \in {CtJsonSeq, CtTextParam, CtJsonUpper},
                              b \in {BOk, BFail42}}
    \cup {Http(s, CtJson, BCsv) : s \in ErrorStatuses}

\* bodies of the token endpoint: {"result": <token>, ...}, {"result": null},
\* an object without "result", an array, an undecodable body
TokenDoc(result) == [j |-> "obj", result |-> result]
TokenBodies ==
    {Body("token", TokenDoc(<<t>>)) : t \in Tokens \cup {None}}
    \cup {Body("noresult", TokenDoc(<<>>)), Body("list", JArr), Body("csv", Invalid)}
TokenStatuses == {200, 401, 429, 500}
TokenResponses ==
    {NetFail}
    \cup {Http(200, CtJson, b) : b \in TokenBodies}
    \cup {Http(s, CtJson, BCsv) : s \in TokenStatuses \ {200}}

(***************************************************************************)
(* Results of a call.                                                      *)
(***************************************************************************)
\* response.text
RawText(body) == [j |-> "text", text |-> body.text]
\* str(data)
PyStr(data) == [j |-> "pystr", of |-> data]

\* exceptions.py:4-7: EloverblikError(message, error_code=None, response_text=None)
Exc(cls, msg, code, text) ==
    [j |-> "exc", cls |-> cls, msg |-> msg, error_code |-> code, response_text |-> text]
\* a formatted message: the format and what was interpolated
Msg(fmt, num, txt) == [fmt |-> fmt, num |-> num, txt |-> txt]

Return(value) == <<[kind |-> "return", value |-> value]>>
Raise(exc) == <<[kind |-> "raise", value |-> exc]>>

(***************************************************************************)
(* The decisions of _get_access_token and _request.                        *)
(***************************************************************************)
\* client.py:56 with the comparison turned round
CacheHitFlipped(token, expiry, t) == Truthy(token) /\ expiry < t + Margin

\* client.py:56 without the safety margin
CacheHitNoMargin(token, expiry, t) == Truthy(token) /\ expiry > t

\* client.py:56 with >= for >
CacheHitAtLeast(token, expiry, t) == Truthy(token) /\ expiry >= t + Margin

\* client.py:56: self._access_token and self._token_expiry > time.time() + 60
CacheHit(token, expiry, t) == Truthy(token) /\ expiry > t + Margin

\* httpx Response.raise_for_status (client.py:66, 112) raises HTTPStatusError
\* unless the status is 2xx
IsSuccess(status) == status >= 200 /\ status <= 299

\* client.py:72 testing for 403 instead of 401
TokenStatusErrorForbidden(status) ==
    IF status = 403
    THEN Exc("AuthenticationError", Msg("Invalid refresh token", <<>>, None), <<>>, None)
    ELSE Exc("ServerError", Msg("Failed to get token", <<status>>, None), <<>>, None)

\* client.py:72-74: the failure of a token exchange answered with a non-2xx status
TokenStatusError(status) ==
    IF status = 401
    THEN Exc("AuthenticationError", Msg("Invalid refresh token", <<>>, None), <<>>, None)
    ELSE Exc("ServerError", Msg("Failed to get token", <<status>>, None), <<>>, None)

\* client.py:64-74: what the exchange makes of the token endpoint's answer r:
\* the token to cache and return, or the exception that leaves the function
ExchangeResult(r) ==
    IF ~r.net
    THEN [ok |-> FALSE, exc |-> Exc("RequestError", Msg("transport", <<>>, None), <<>>, None)]
    ELSE IF ~IsSuccess(r.status)
    THEN [ok |-> FALSE, exc |-> TokenStatusError(r.status)]
    ELSE IF r.body.json.j = "invalid"     \* client.py:67 resp.json()
    THEN [ok |-> FALSE, exc |-> Exc("JSONDecodeError", Msg("json", <<>>, None), <<>>, None)]
    ELSE IF r.body.json.j # "obj"         \* client.py:68 data["result"] on a list
    THEN [ok |-> FALSE, exc |-> Exc("TypeError", Msg("subscript", <<>>, None), <<>>, None)]
    ELSE IF r.body.json.result = <<>>     \* client.py:68 data["result"], key missing
    THEN [ok |-> FALSE, exc |-> Exc("KeyError", Msg("result", <<>>, None), <<>>, None)]
    ELSE [ok |-> TRUE, token |-> r.body.json.result[1]]

\* client.py:115-116: "application/json" in content_type, a substring test:
\* one of the pieces of the value is an occurrence of "application/json"
IsJsonContentType(ctype) == \E i \in 1..Len(ctype) : ctype[i] = "application/json"

\* client.py:121 with the default of data.get dropped: a missing flag is falsy
EnvelopeFailsOnAbsent(data) ==
    data.j = "obj" /\ data.success \in {"false", "null", "absent"}

\* client.py:121: isinstance(data, dict) and not data.get("success", True)
EnvelopeFails(data) == data.j = "obj" /\ data.success \in {"false", "null"}

\* client.py:122-124: the EloverblikError of a failed envelope
EnvelopeError(data) ==
    Exc("EloverblikError",
        Msg("API Error", data.errorCode,
            IF data.errorText = <<>> \/ data.errorText = <<"">>   \* client.py:122 "or"
            THEN [j |-> "text", text |-> "Unknown API error"]
            ELSE [j |-> "text", text |-> data.errorText[1]]),
        data.errorCode,
        PyStr(data))

\* client.py:114-126: the outcome of a response with a success status
SuccessOutcome(r) ==
    IF ~IsJsonContentType(r.ctype) THEN Return(RawText(r.body))
    ELSE IF r.body.json.j = "invalid"
    THEN Raise(Exc("JSONDecodeError", Msg("json", <<>>, None), <<>>, None))
    ELSE IF EnvelopeFails(r.body.json) THEN Raise(EnvelopeError(r.body.json))
    ELSE Return(r.body.json)

\* client.py:129 without the retry_auth test
ShouldRetryAlways(status, retry) == status = 401

\* client.py:129: the one condition of the retry
ShouldRetry(status, retry) == status = 401 /\ retry

\* client.py:133-134 left out
StatusErrorNo429(r) ==
    IF r.status >= 500
    THEN Exc("ServerError", Msg("Server error", <<r.status>>, None), <<>>, None)
    ELSE Exc("EloverblikError", Msg("HTTP Error", <<r.status>>, RawText(r.body)), <<>>, None)

\* client.py:135 with > for >=
StatusErrorAbove500(r) ==
    IF r.status = 429
    THEN Exc("RateLimitError", Msg("Rate limit exceeded", <<>>, None), <<>>, None)
    ELSE IF r.status > 500
    THEN Exc("ServerError", Msg("Server error", <<r.status>>, None), <<>>, None)
    ELSE Exc("EloverblikError", Msg("HTTP Error", <<r.status>>, RawText(r.body)), <<>>, None)

\* client.py:135 with 400 for 500
StatusErrorFrom400(r) ==
    IF r.status = 429
    THEN Exc("RateLimitError", Msg("Rate limit exceeded", <<>>, None), <<>>, None)
    ELSE IF r.status >= 400
    THEN Exc("ServerError", Msg("Server error", <<r.status>>, None), <<>>, None)
    ELSE Exc("EloverblikError", Msg("HTTP Error", <<r.status>>, RawText(r.body)), <<>>, None)

\* client.py:133-138: the failure of a non-2xx status that is not retried
StatusError(r) ==
    IF r.status = 429
    THEN Exc("RateLimitError", Msg("Rate limit exceeded", <<>>, None), <<>>, None)
    ELSE IF r.status >= 500
    THEN Exc("ServerError", Msg("Server error", <<r.status>>, None), <<>>, None)
    ELSE Exc("EloverblikError", Msg("HTTP Error", <<r.status>>, RawText(r.body)), <<>>, None)

(***************************************************************************)
(* State.                                                                  *)
(***************************************************************************)
VARIABLES
    refresh_token,  \* self._refresh_token (client.py:39)
    access_token,   \* self._access_token (client.py:40)
    token_expiry,   \* self._token_expiry (client.py:41)
    now,            \* time.time()
    pc,             \* where each call is: "idle", "await_token", "await_api", "done"
    op,             \* what each call runs: "acquire" (_get_access_token) or "request"
    retry_auth,     \* the retry_auth argument of the call's current _request frame
    response,       \* the last answer of the target endpoint to the call, if any
    outcome,        \* what the call returned or raised, once it is done
    log,            \* the call's events so far, in order
    bearer,         \* the token in the Authorization header of the call's request
                    \* to the target endpoint while it is pending (client.py:100-103)
    presented,      \* the credential in the Authorization header of the call's
                    \* request to the token endpoint while it is pending
                    \* (client.py:60-65)
    closed          \* close() has run: self._client is closed (client.py:44-46)

vars == <<refresh_token, access_token, token_expiry, now, pc, op, retry_auth, response,
          outcome, log, bearer, presented, closed>>

\* the calls whose events, responses and outcomes are recorded; the other
\* calls run the same code unrecorded
Observed == {1}
Recorded(c, value) == IF c \in Observed THEN value ELSE <<>>

\* the events of a call
EvExchange == [ev |-> "exchange"]                      \* client.py:65 issued
EvFetched(token) == [ev |-> "fetched", tok |-> token]  \* client.py:68-70
EvExchangeFailed(r) ==                                 \* client.py:65-68 raised
    [ev |-> "exchange_failed", status |-> IF r.net THEN <<r.status>> ELSE <<>>]
EvDispatch(token) == [ev |-> "dispatch", tok |-> token] \* client.py:102-111 issued
EvResponse(r) ==                                       \* client.py:111 answered
    [ev |-> "response", status |-> IF r.net THEN <<r.status>> ELSE <<>>]
EvInvalidate == [ev |-> "invalidate"]                  \* client.py:131
EvCancelled == [ev |-> "cancelled"]                    \* CancelledError at the await

\* the state after BaseClient(rt), client.py:38-42
InitWith(rt) ==
    /\ refresh_token = rt           \* client.py:39
    /\ access_token = None          \* client.py:40
    /\ token_expiry = 0             \* client.py:41
    /\ now = 0
    /\ pc = [c \in Calls |-> "idle"]
    /\ op = [c \in Calls |-> "none"]
    /\ retry_auth = [c \in Calls |-> TRUE]
    /\ response = [c \in Calls |-> <<>>]
    /\ outcome = [c \in Calls |-> <<>>]
    /\ log = [c \in Calls |-> <<>>]
    /\ bearer = [c \in Calls |-> None]
    /\ presented = [c \in Calls |-> <<>>]
    /\ closed = FALSE               \* client.py:42

Init == InitWith("rt")

(***************************************************************************)
(* _get_access_token, client.py:54-74.                                     *)
(***************************************************************************)
\* a closed httpx.AsyncClient sends nothing: get() and request() raise
\* RuntimeError("Cannot send a request, as the client has been closed.")
ClientClosed == Exc("RuntimeError", Msg("client closed", <<>>, None), <<>>, None)

\* the call ends with result res (Return(..) or Raise(..)) after the events lg
Finish(c, res, lg) ==
    /\ pc' = [pc EXCEPT ![c] = "done"]
    /\ outcome' = [outcome EXCEPT ![c] = Recorded(c, res)]
    /\ log' = [log EXCEPT ![c] = Recorded(c, lg)]
    /\ bearer' = [bearer EXCEPT ![c] = None]
    /\ presented' = [presented EXCEPT ![c] = <<>>]

\* client.py:100-111: _get_access_token has returned token to the call running
\* o: a direct caller has its result, _request sends the token to the target
\* endpoint and suspends
AfterAcquire(c, o, token, lg) ==
    IF o = "acquire"
    THEN Finish(c, Return(token), lg)
    ELSE IF closed THEN Finish(c, Raise(ClientClosed), lg)    \* client.py:111
    ELSE /\ pc' = [pc EXCEPT ![c] = "await_api"]
         /\ log' = [log EXCEPT ![c] = Recorded(c, Append(lg, EvDispatch(token)))]
         /\ bearer' = [bearer EXCEPT ![c] = token]
         /\ presented' = [presented EXCEPT ![c] = <<>>]
         /\ outcome' = outcome

\* client.py:61 with the credential written into the code
ExchangeCredentialFixed(rt) == "rt"

\* client.py:60-62: the credential of "Authorization": f"Bearer {self._refresh_token}"
ExchangeCredential(rt) == rt

\* client.py:59-65: the exchange is sent and the call suspends
Exchange(c, lg) ==
    IF closed THEN Finish(c, Raise(ClientClosed), lg)         \* client.py:65
    ELSE /\ pc' = [pc EXCEPT ![c] = "await_token"]
         /\ log' = [log EXCEPT ![c] = Recorded(c, Append(lg, EvExchange))]
         /\ bearer' = [bearer EXCEPT ![c] = None]
         /\ presented' = [presented EXCEPT ![c] = <<ExchangeCredential(refresh_token)>>]
         /\ outcome' = outcome

\* client.py:56-65: with the cache holding (token, expiry), either return the
\* cached token or start an exchange
GetAccessToken(c, o, token, expiry, lg) ==
    IF CacheHit(token, expiry, now)
    THEN AfterAcquire(c, o, token, lg)
    ELSE Exchange(c, lg)

\* a caller starts operation o: the code up to the first suspension
Start(c, o) ==
    /\ pc[c] = "idle"
    /\ op' = [op EXCEPT ![c] = o]
    /\ retry_auth' = [retry_auth EXCEPT ![c] = TRUE]     \* client.py:97
    /\ GetAccessToken(c, o, access_token, token_expiry, <<>>)
    /\ UNCHANGED <<refresh_token, access_token, token_expiry, now, response, closed>>

\* await client._get_access_token()
StartAcquire(c) == Start(c, "acquire")

\* await client._request(method, endpoint, json)
StartRequest(c) == Start(c, "request")

\* the expiry is only ever raised: a later exchange with an earlier expiry
\* leaves the new token beside the old expiry
TokenAnswerTorn(c, r) ==
    LET res == ExchangeResult(r) IN
    IF res.ok
    THEN /\ access_token' = res.token
         /\ token_expiry' = IF token_expiry > DecodeTokenExpiry(res.token)
                            THEN token_expiry
                            ELSE DecodeTokenExpiry(res.token)
         /\ AfterAcquire(c, op[c], res.token,
                         Append(log[c], EvFetched(res.token)))
    ELSE /\ Finish(c, Raise(res.exc), Append(log[c], EvExchangeFailed(r)))
         /\ UNCHANGED <<access_token, token_expiry>>

\* client.py:68-69 storing the fetched token only when it does not expire
\* sooner than the cached one
TokenAnswerKeepLongest(c, r) ==
    LET res == ExchangeResult(r) IN
    IF res.ok
    THEN /\ access_token' = IF DecodeTokenExpiry(res.token) >= token_expiry
                            THEN res.token ELSE access_token
         /\ token_expiry' = IF DecodeTokenExpiry(res.token) >= token_expiry
                            THEN DecodeTokenExpiry(res.token) ELSE token_expiry
         /\ AfterAcquire(c, op[c], res.token,
                         Append(log[c], EvFetched(res.token)))
    ELSE /\ Finish(c, Raise(res.exc), Append(log[c], EvExchangeFailed(r)))
         /\ UNCHANGED <<access_token, token_expiry>>

\* client.py:71-74 with the cached token dropped when the exchange fails
TokenAnswerClearing(c, r) ==
    LET res == ExchangeResult(r) IN
    IF res.ok
    THEN /\ access_token' = res.token
         /\ token_expiry' = DecodeTokenExpiry(res.token)
         /\ AfterAcquire(c, op[c], res.token,
                         Append(log[c], EvFetched(res.token)))
    ELSE /\ Finish(c, Raise(res.exc), Append(log[c], EvExchangeFailed(r)))
         /\ access_token' = None
         /\ UNCHANGED token_expiry

\* client.py:65-74: what the call does with the token endpoint's answer r; on
\* success the token and its decoded expiry are stored and the token is returned
TokenAnswer(c, r) ==
    LET res == ExchangeResult(r) IN
    IF res.ok
    THEN /\ access_token' = res.token                        \* client.py:68
         /\ token_expiry' = DecodeTokenExpiry(res.token)     \* client.py:69
         /\ AfterAcquire(c, op[c], res.token,                \* client.py:70
                         Append(log[c], EvFetched(res.token)))
    ELSE /\ Finish(c, Raise(res.exc), Append(log[c], EvExchangeFailed(r)))
         /\ UNCHANGED <<access_token, token_expiry>>

\* client.py:65-74: the token endpoint answers
TokenResponse(c) ==
    /\ pc[c] = "await_token"
    /\ \E r \in TokenResponses : TokenAnswer(c, r)
    /\ UNCHANGED <<refresh_token, now, op, retry_auth, response, closed>>

(***************************************************************************)
(* _request, client.py:92-138.                                             *)
(***************************************************************************)
\* client.py:131 left out: the cached token stays
InvalidatedKept(token) == token

\* client.py:131: self._access_token = None
Invalidated(token) == None

\* client.py:131 clearing the cache only while it still holds the token that
\* was sent in the rejected request
ApiResponseCompare(c) ==
    /\ pc[c] = "await_api"
    /\ \E r \in TargetResponses :
        LET lg == Append(log[c], EvResponse(r)) IN
        /\ response' = [response EXCEPT ![c] = Recorded(c, <<r>>)]
        /\ IF ~r.net
           THEN /\ Finish(c, Raise(Exc("RequestError", Msg("transport", <<>>, None),
                                       <<>>, None)), lg)
                /\ UNCHANGED <<access_token, token_expiry, retry_auth>>
           ELSE IF IsSuccess(r.status)
           THEN /\ Finish(c, SuccessOutcome(r), lg)
                /\ UNCHANGED <<access_token, token_expiry, retry_auth>>
           ELSE IF ShouldRetry(r.status, retry_auth[c])
           THEN /\ access_token' = IF access_token = bearer[c]
                                   THEN Invalidated(access_token)
                                   ELSE access_token
                /\ token_expiry' = token_expiry
                /\ retry_auth' = [retry_auth EXCEPT ![c] = FALSE]
                /\ GetAccessToken(c, "request", access_token', token_expiry',
                                  Append(lg, EvInvalidate))
           ELSE /\ Finish(c, Raise(StatusError(r)), lg)
                /\ UNCHANGED <<access_token, token_expiry, retry_auth>>
    /\ UNCHANGED <<refresh_token, now, op, closed>>

\* client.py:111-138: the target endpoint answers
ApiResponse(c) ==
    /\ pc[c] = "await_api"
    /\ \E r \in TargetResponses :
        LET lg == Append(log[c], EvResponse(r)) IN
        /\ response' = [response EXCEPT ![c] = Recorded(c, <<r>>)]
        /\ IF ~r.net
           THEN /\ Finish(c, Raise(Exc("RequestError", Msg("transport", <<>>, None),
                                       <<>>, None)), lg)
                /\ UNCHANGED <<access_token, token_expiry, retry_auth>>
           ELSE IF IsSuccess(r.status)
           THEN /\ Finish(c, SuccessOutcome(r), lg)
                /\ UNCHANGED <<access_token, token_expiry, retry_auth>>
           ELSE IF ShouldRetry(r.status, retry_auth[c])
           THEN /\ access_token' = Invalidated(access_token)        \* client.py:131
                /\ token_expiry' = token_expiry
                /\ retry_auth' = [retry_auth EXCEPT ![c] = FALSE]   \* client.py:132
                /\ GetAccessToken(c, "request", access_token', token_expiry',
                                  Append(lg, EvInvalidate))
           ELSE /\ Finish(c, Raise(StatusError(r)), lg)
                /\ UNCHANGED <<access_token, token_expiry, retry_auth>>
    /\ UNCHANGED <<refresh_token, now, op, closed>>

\* the caller has taken the result; the call's frame is gone
ReturnToCaller(c) ==
    /\ pc[c] = "done"
    /\ pc' = [pc EXCEPT ![c] = "idle"]
    /\ op' = [op EXCEPT ![c] = "none"]
    /\ retry_auth' = [retry_auth EXCEPT ![c] = TRUE]
    /\ response' = [response EXCEPT ![c] = <<>>]
    /\ outcome' = [outcome EXCEPT ![c] = <<>>]
    /\ log' = [log EXCEPT ![c] = <<>>]
    /\ UNCHANGED <<refresh_token, access_token, token_expiry, now, bearer, presented, closed>>

\* the clock advances
Tick ==
    /\ now < MaxTime
    /\ now' = now + 1
    /\ UNCHANGED <<refresh_token, access_token, token_expiry, pc, op, retry_auth, response,
                   outcome, log, bearer, presented, closed>>

Next ==
    \/ Tick
    \/ \E c \in Calls : StartAcquire(c)
    \/ \E c \in Calls : StartRequest(c)
    \/ \E c \in Calls : TokenResponse(c)
    \/ \E c \in Calls : ApiResponse(c)
    \/ \E c \in Calls : ReturnToCaller(c)

Spec == Init /\ [][Next]_vars

\* every HTTP operation a call awaits completes: the token endpoint and the
\* target endpoint answer (or the transport gives up) each pending request
SpecLive ==
    /\ Init /\ [][Next]_vars
    /\ \A c \in Calls : WF_vars(TokenResponse(c)) /\ WF_vars(ApiResponse(c))

(***************************************************************************)
(* Shutdown, client.py:44-52.                                              *)
(***************************************************************************)
\* close(), also run by __aexit__ when the async-with scope is left: the
\* httpx client is closed and nothing else is written.  Calls that are
\* suspended keep their pending answer; every later send raises.
Close ==
    /\ ~closed
    /\ closed' = TRUE
    /\ UNCHANGED <<refresh_token, access_token, token_expiry, now, pc, op, retry_auth,
                   response, outcome, log, bearer, presented>>

NextShutdown ==
    \/ Next
    \/ Close

\* the client with its shutdown
SpecShutdown == Init /\ [][NextShutdown]_vars

(***************************************************************************)
(* Cancellation.  The caller cancels the task of a call that is suspended  *)
(* at client.py:65 or client.py:111: asyncio raises CancelledError at that *)
(* await.  CancelledError is a BaseException, so neither the handlers at   *)
(* client.py:71 and client.py:128 nor any other code of the call runs.     *)
(***************************************************************************)
\* a cancellation that clears the cached token on the way out
CancelClearing(c) ==
    /\ pc[c] \in {"await_token", "await_api"}
    /\ Finish(c, Raise(Exc("CancelledError", Msg("cancelled", <<>>, None), <<>>, None)),
              Append(log[c], EvCancelled))
    /\ access_token' = None
    /\ UNCHANGED <<refresh_token, token_expiry, now, op, retry_auth, response,
                   closed>>

Cancel(c) ==
    /\ pc[c] \in {"await_token", "await_api"}
    /\ Finish(c, Raise(Exc("CancelledError", Msg("cancelled", <<>>, None), <<>>, None)),
              Append(log[c], EvCancelled))
    /\ UNCHANGED <<refresh_token, access_token, token_expiry, now, op, retry_auth, response,
                   closed>>

NextCancel ==
    \/ Next
    \/ \E c \in Calls : Cancel(c)

\* the client with callers that may cancel their calls
SpecCancel == Init /\ [][NextCancel]_vars

\* the refresh tokens a client is constructed with
Credentials == {"rt", "rt2"}
InitAnyCredential == \E rt \in Credentials : InitWith(rt)

\* clients of every credential, with their shutdown
SpecCredential == InitAnyCredential /\ [][NextShutdown]_vars

(***************************************************************************)
(* _decode_token_expiry over token strings of every shape, client.py:76-90:*)
(* one caller acquires again and again, and the token endpoint hands out   *)
(* any string of one to three segments, or null.                           *)
(***************************************************************************)
Segments == {"", "hdr", "sig", "bad64", "nojson", "arr", "expnull", "noexp",
             "exp62", "exp64", "exp64dirty"}
TokenStrings ==
    {Str(<<a>>) : a \in Segments}
    \cup {Str(<<a, b>>) : a \in {"", "hdr"}, b \in Segments}
    \cup {Str(<<a, b, s>>) : a \in {"", "hdr"}, b \in Segments, s \in {"", "sig"}}
DecodeResponses ==
    {Http(200, CtJson, Body("token", TokenDoc(<<t>>))) : t \in TokenStrings \cup {None}}

\* client.py:65-70 with the token endpoint answering from DecodeResponses
TokenResponseAnyShape(c) ==
    /\ pc[c] = "await_token"
    /\ \E r \in DecodeResponses : TokenAnswer(c, r)
    /\ UNCHANGED <<refresh_token, now, op, retry_auth, response, closed>>

NextDecode ==
    \/ Tick
    \/ StartAcquire(1)
    \/ TokenResponseAnyShape(1)
    \/ ReturnToCaller(1)

SpecDecode == Init /\ [][NextDecode]_vars

(***************************************************************************)
(* Reading a call's events.                                                *)
(***************************************************************************)
NumEv(lg, kind) == Cardinality({i \in 1..Len(lg) : lg[i].ev = kind})
IsResponse(e, status) == e.ev = "response" /\ e.status = <<status>>
IsResponseEv(e) == e.ev = "response"
\* the answers of the target endpoint to the call, in order
Responses(lg) == SelectSeq(lg, IsResponseEv)
\* the content types of the model that declare JSON: the media type is
\* application/json
JsonTypes == {CtJson, CtJsonCharset, CtJsonUpper}
\* the class of the exception a call raised, "" if it raised none
RaisedIn(o) == IF o # <<>> /\ o[1].kind = "raise" THEN o[1].value.cls ELSE ""
Raised(c) == RaisedIn(outcome[c])
\* the call took a step of its own
Started(c) == pc[c] = "idle" /\ pc'[c] # "idle"
TokenAnswered(c) == pc[c] = "await_token" /\ pc'[c] # "await_token"
ApiAnswered(c) == pc[c] = "await_api" /\ Len(log'[c]) > Len(log[c])
\* the step in which the call's _get_access_token returns, and what it returns
AcquireReturned(c) ==
    /\ Started(c) \/ TokenAnswered(c)
    /\ \/ op'[c] = "acquire" /\ pc'[c] = "done" /\ outcome'[c][1].kind = "return"
       \/ op'[c] = "request" /\ pc'[c] = "await_api"
ReturnedToken(c) ==
    IF op'[c] = "acquire" THEN outcome'[c][1].value ELSE log'[c][Len(log'[c])].tok

\* the call's first dispatch was answered 401 and the exchange sent for the
\* retry has just been answered 401
RetryExchangeRejected(c) ==
    /\ pc[c] = "await_token" /\ ~retry_auth[c]
    /\ pc'[c] # "await_token"
    /\ log'[c][Len(log'[c])] = EvExchangeFailed(Http(401, CtJson, BCsv))

\* the call's dispatch of the retry has just been answered 401
SecondUnauthorized(c) ==
    /\ ApiAnswered(c) /\ ~retry_auth[c]
    /\ response'[c] = <<Http(401, CtJson, BCsv)>>
\* the token the call fetched last
LastFetched(lg) ==
    LET idx == {i \in 1..Len(lg) : lg[i].ev = "fetched"}
    IN lg[CHOOSE i \in idx : \A k \in idx : k <= i].tok

\* the expiry the data model gives each token of the model: the exp claim of
\* a well-formed middle segment, and 0 for anything else
ExpectedExpiry(token) ==
    IF token = T64 THEN 64 ELSE IF token = T62 THEN 62 ELSE 0

(***************************************************************************)
(* C1.  Cache hit: whenever a non-empty token is cached and its stored     *)
(* expiry is strictly greater than now + 60, a call of _get_access_token   *)
(* (direct, or the one _request makes first) returns exactly the cached    *)
(* token, calls the token endpoint zero times and leaves token and expiry  *)
(* unchanged; every call started inside the window does so.                *)
(***************************************************************************)
C1_CacheHit ==
    [][\A c \in Observed :
        (/\ Started(c)
         /\ access_token \in Tokens
         /\ token_expiry > now + 60)
        => /\ access_token' = access_token
           /\ token_expiry' = token_expiry
           /\ NumEv(log'[c], "exchange") = 0
           /\ op'[c] = "acquire" =>
                /\ pc'[c] = "done"
                /\ outcome'[c] = Return(access_token)
                /\ log'[c] = <<>>
           /\ op'[c] = "request" =>
                /\ pc'[c] = "await_api"
                /\ log'[c] = <<EvDispatch(access_token)>>]_vars

\* a direct acquire has returned the cached token inside its window, with no
\* event at all
C1_Witness ==
    /\ pc[1] = "done" /\ op[1] = "acquire"
    /\ log[1] = <<>>
    /\ access_token = T62 /\ token_expiry = 62 /\ now = 1
    /\ outcome[1] = Return(T62)

(***************************************************************************)
(* C2.  Cache miss: whenever no token is cached, or the stored expiry is   *)
(* at most now + 60 (0 for an undecodable token), _get_access_token makes  *)
(* one call to the token endpoint, and when that call succeeds it stores   *)
(* the returned token with the expiry decoded from it and returns that     *)
(* token, after exactly one exchange.                                      *)
(***************************************************************************)
C2_CacheMiss ==
    [][\A c \in Observed :
        /\ (/\ Started(c)
            /\ (access_token = None \/ token_expiry <= now + 60))
           => /\ pc'[c] = "await_token"
              /\ log'[c] = <<EvExchange>>
              /\ access_token' = access_token
              /\ token_expiry' = token_expiry
        /\ (/\ TokenAnswered(c)
            /\ Len(log'[c]) > Len(log[c])
            /\ log'[c][Len(log[c]) + 1].ev = "fetched")
           => LET t == log'[c][Len(log[c]) + 1].tok IN
              /\ log[c][Len(log[c])] = EvExchange
              /\ Len(log[c]) > 1 => log[c][Len(log[c]) - 1] = EvInvalidate
              /\ access_token' = t
              /\ token_expiry' = ExpectedExpiry(t)
              /\ op[c] = "acquire" =>
                   /\ pc'[c] = "done"
                   /\ outcome'[c] = Return(t)
                   /\ log'[c] = <<EvExchange, EvFetched(t)>>
              /\ op[c] = "request" =>
                   /\ pc'[c] = "await_api"
                   /\ log'[c] = log[c] \o <<EvFetched(t), EvDispatch(t)>>]_vars

\* a direct acquire found a cached token whose expiry had come within the
\* margin, and returned the other token the endpoint sent
C2_Witness ==
    /\ pc[1] = "done" /\ op[1] = "acquire"
    /\ log[1] = <<EvExchange, EvFetched(T64)>>
    /\ outcome[1] = Return(T64)
    /\ access_token = T64 /\ token_expiry = 64
    /\ now = 2

(***************************************************************************)
(* C3.  As claimed: a _request whose first dispatch is answered 401 and    *)
(* whose second dispatch is answered with a success status returns the     *)
(* decoded payload of the second response, after exactly two dispatches.   *)
(***************************************************************************)
C3_Original ==
    \A c \in Observed :
        LET rs == Responses(log[c]) IN
        (/\ pc[c] = "done" /\ Len(rs) = 2
         /\ rs[1].status = <<401>>
         /\ response[c][1].net
         /\ response[c][1].status >= 200 /\ response[c][1].status <= 299)
        => /\ outcome[c] \in {Return(response[c][1].body.json),
                              Return(RawText(response[c][1].body))}
           /\ NumEv(log[c], "dispatch") = 2

(***************************************************************************)
(* C3, amended.  Such a call makes exactly two dispatches and ends as the  *)
(* second response decides: the raw text when the content-type value does  *)
(* not contain "application/json", the decoded body when it does, except   *)
(* that an envelope whose success flag is false or null raises             *)
(* EloverblikError and a body that is not JSON raises the decoder's error. *)
(***************************************************************************)
C3_RetrySuccess ==
    \A c \in Observed :
        LET rs == Responses(log[c]) IN
        (/\ pc[c] = "done" /\ Len(rs) = 2
         /\ rs[1].status = <<401>>
         /\ response[c][1].net
         /\ response[c][1].status >= 200 /\ response[c][1].status <= 299)
        => LET r == response[c][1] IN
           /\ NumEv(log[c], "dispatch") = 2
           /\ log[c][Len(log[c])] = EvResponse(r)
           /\ IF ~IsJsonContentType(r.ctype)
              THEN outcome[c] = Return(RawText(r.body))
              ELSE IF r.body.json = Invalid
              THEN Raised(c) = "JSONDecodeError"
              ELSE IF r.body.json # JArr /\ r.body.json.success \in {"false", "null"}
              THEN Raised(c) = "EloverblikError"
              ELSE outcome[c] = Return(r.body.json)

\* 401, then 200 with a JSON envelope without a success flag: the envelope is
\* returned after two dispatches and a token fetch in between
C3_Witness ==
    /\ pc[1] = "done"
    /\ log[1] = <<EvDispatch(T64), EvResponse(Http(401, CtJson, BCsv)), EvInvalidate,
                  EvExchange, EvFetched(T62), EvDispatch(T62),
                  EvResponse(Http(200, CtJsonCharset, BNoFlag))>>
    /\ outcome[1] = Return(BNoFlag.json)

(***************************************************************************)
(* C4.  A _request answered 401 on the first attempt and on the retry ends *)
(* with the second 401: the step that receives it finishes the call after  *)
(* exactly two dispatches and one invalidation, raises the base            *)
(* EloverblikError and leaves the cache as it was.                         *)
(***************************************************************************)
C4_SecondUnauthorized ==
    [][\A c \in Observed :
        (/\ ApiAnswered(c)
         /\ Len(Responses(log[c])) >= 1
         /\ Responses(log[c])[1].status = <<401>>
         /\ IsResponse(log'[c][Len(log[c]) + 1], 401))
        => /\ pc'[c] = "done"
           /\ log'[c] = Append(log[c], log'[c][Len(log[c]) + 1])
           /\ NumEv(log'[c], "dispatch") = 2
           /\ NumEv(log'[c], "response") = 2
           /\ NumEv(log'[c], "invalidate") = 1
           /\ outcome'[c] # <<>> /\ outcome'[c][1].kind = "raise"
           /\ outcome'[c][1].value.cls = "EloverblikError"
           /\ access_token' = access_token
           /\ token_expiry' = token_expiry]_vars

\* the call has failed on its second 401 and the token fetched for the retry
\* is still cached
C4_Witness ==
    /\ pc[1] = "done"
    /\ Len(Responses(log[1])) = 2
    /\ Responses(log[1])[1].status = <<401>>
    /\ Responses(log[1])[2].status = <<401>>
    /\ Raised(1) = "EloverblikError"
    /\ access_token = T64

(***************************************************************************)
(* C5.  In every state, a first-attempt 401 of a call is followed at once  *)
(* by the invalidation and by one token exchange of that call, whatever    *)
(* the stored expiry and whatever other calls do; every later dispatch of  *)
(* the call comes right after that exchange returned and carries the token *)
(* it returned.                                                            *)
(***************************************************************************)
C5_RetryFetchesToken ==
    \A c \in Observed :
        \A i \in 1..Len(log[c]) :
            (IsResponse(log[c][i], 401) /\ NumEv(SubSeq(log[c], 1, i - 1), "response") = 0)
            => /\ Len(log[c]) >= i + 2
               /\ log[c][i + 1] = EvInvalidate
               /\ log[c][i + 2] = EvExchange
               /\ NumEv(SubSeq(log[c], i, Len(log[c])), "exchange") = 1
               /\ \A k \in (i + 1)..Len(log[c]) :
                     log[c][k].ev = "dispatch"
                     => /\ k = i + 4
                        /\ log[c][i + 3].ev = "fetched"
                        /\ log[c][k].tok = log[c][i + 3].tok

\* the rejected token came from the cache with its expiry more than 60 seconds
\* away; the retry went out with the token of the call's own exchange while
\* the other call was in flight
C5_Witness ==
    /\ log[1] = <<EvDispatch(T64), EvResponse(Http(401, CtJson, BCsv)), EvInvalidate,
                  EvExchange, EvFetched(T62), EvDispatch(T62)>>
    /\ pc[1] = "await_api"
    /\ pc[2] = "await_api"
    /\ now + 60 < 64

(***************************************************************************)
(* C6.  As claimed: when the target endpoint answers with a success        *)
(* status, a JSON content type (application/json in any case, with or      *)
(* without parameters) and a mapping with success = false and              *)
(* errorCode = c, the step that receives the answer ends the call with the *)
(* base EloverblikError whose error_code is c and whose response_text is   *)
(* the envelope as str() prints it; nothing is returned, nothing more is   *)
(* sent and the cached token and expiry stay as they were.                 *)
(***************************************************************************)
C6_Original ==
    [][\A c \in Observed :
        (/\ ApiAnswered(c)
         /\ response'[c] # <<>>
         /\ response'[c][1].net
         /\ response'[c][1].status >= 200 /\ response'[c][1].status <= 299
         /\ response'[c][1].ctype \in JsonTypes
         /\ response'[c][1].body.json \notin {Invalid, JArr}
         /\ response'[c][1].body.json.success = "false"
         /\ response'[c][1].body.json.errorCode # <<>>)
        => LET data == response'[c][1].body.json IN
           /\ pc'[c] = "done"
           /\ log'[c] = Append(log[c], EvResponse(response'[c][1]))
           /\ outcome'[c] # <<>> /\ outcome'[c][1].kind = "raise"
           /\ outcome'[c][1].value.cls = "EloverblikError"
           /\ outcome'[c][1].value.error_code = data.errorCode
           /\ outcome'[c][1].value.response_text = PyStr(data)
           /\ access_token' = access_token
           /\ token_expiry' = token_expiry
           /\ retry_auth'[c] = retry_auth[c]]_vars

(***************************************************************************)
(* C7.  As claimed: a call that ended on a success-status answer whose     *)
(* declared content type is not JSON (anything but application/json with   *)
(* or without parameters, or no content type at all) returned the raw text *)
(* of the body, whatever the body parses to: also an envelope with         *)
(* success = false is returned as text and raises nothing.                 *)
(***************************************************************************)
C7_Original ==
    \A c \in Observed :
        (/\ pc[c] = "done"
         /\ log[c] # <<>> /\ log[c][Len(log[c])].ev = "response"
         /\ response[c][1].net
         /\ response[c][1].status >= 200 /\ response[c][1].status <= 299
         /\ response[c][1].ctype \notin JsonTypes)
        => outcome[c] = Return([j |-> "text", text |-> response[c][1].body.text])

(***************************************************************************)
(* C8.  A token exchange answered 401 ends the call at once with           *)
(* AuthenticationError: it is the only exchange of that acquire (the first *)
(* event of the call, or the one right after the invalidation), nothing    *)
(* follows it, and the target endpoint got no dispatch for that attempt.   *)
(***************************************************************************)
C8_TokenUnauthorized ==
    \A c \in Observed :
        \A i \in 1..Len(log[c]) :
            (log[c][i].ev = "exchange_failed" /\ log[c][i].status = <<401>>)
            => /\ i = Len(log[c])
               /\ pc[c] = "done"
               /\ Raised(c) = "AuthenticationError"
               /\ i >= 2 /\ log[c][i - 1] = EvExchange
               /\ i > 2 => log[c][i - 2] = EvInvalidate
               /\ NumEv(log[c], "exchange_failed") = 1
               /\ NumEv(log[c], "dispatch") = NumEv(log[c], "invalidate")
               /\ NumEv(log[c], "dispatch") = IF i = 2 THEN 0 ELSE 1

\* a _request whose first exchange was answered 401: AuthenticationError, no
\* dispatch
C8_Witness ==
    /\ pc[1] = "done" /\ op[1] = "request"
    /\ log[1] = <<EvExchange, [ev |-> "exchange_failed", status |-> <<401>>]>>
    /\ Raised(1) = "AuthenticationError"

(***************************************************************************)
(* C9.  When the target endpoint answers 429, on the first attempt or on   *)
(* the retry, the step that receives it ends the call with RateLimitError, *)
(* sends nothing more and leaves the cached token and expiry untouched.    *)
(***************************************************************************)
C9_RateLimited ==
    [][\A c \in Observed :
        (ApiAnswered(c) /\ IsResponse(log'[c][Len(log[c]) + 1], 429))
        => /\ pc'[c] = "done"
           /\ Len(log'[c]) = Len(log[c]) + 1
           /\ RaisedIn(outcome'[c]) = "RateLimitError"
           /\ access_token' = access_token
           /\ token_expiry' = token_expiry]_vars

\* 429 on the retry after a 401
C9_Witness ==
    /\ pc[1] = "done"
    /\ Len(Responses(log[1])) = 2
    /\ Responses(log[1])[1].status = <<401>>
    /\ Responses(log[1])[2].status = <<429>>
    /\ log[1][Len(log[1])].ev = "response"
    /\ Raised(1) = "RateLimitError"

(***************************************************************************)
(* C10.  An answer of the target endpoint with a status >= 500, on the     *)
(* first attempt or on the retry, is the last event of the call: the call  *)
(* is over and raised ServerError.                                         *)
(***************************************************************************)
C10_ServerError ==
    \A c \in Observed :
        \A i \in 1..Len(log[c]) :
            (/\ log[c][i].ev = "response"
             /\ log[c][i].status # <<>>
             /\ log[c][i].status[1] >= 500)
            => /\ i = Len(log[c])
               /\ pc[c] = "done"
               /\ Raised(c) = "ServerError"

\* 500 on the retry after a 401
C10_Witness ==
    /\ pc[1] = "done"
    /\ Len(Responses(log[1])) = 2
    /\ Responses(log[1])[1].status = <<401>>
    /\ Responses(log[1])[2].status = <<500>>
    /\ Raised(1) = "ServerError"

(***************************************************************************)
(* C11.  Every non-success answer of the target endpoint is classified in  *)
(* exactly one way.  A 401 on the first attempt is retried: the            *)
(* invalidation follows it and the answer raises nothing.  Any other       *)
(* answer is the call's last event and raises RateLimitError for 429,      *)
(* ServerError for a status >= 500, and the base EloverblikError for every *)
(* other status (a redirect, 404, the 401 of the retry).                   *)
(***************************************************************************)
C11_StatusClassification ==
    \A c \in Observed :
        \A i \in 1..Len(log[c]) :
            (/\ log[c][i].ev = "response"
             /\ log[c][i].status # <<>>
             /\ ~(log[c][i].status[1] >= 200 /\ log[c][i].status[1] <= 299))
            => LET s == log[c][i].status[1]
                   first == NumEv(SubSeq(log[c], 1, i - 1), "response") = 0
               IN  IF s = 401 /\ first
                   THEN /\ i < Len(log[c])
                        /\ log[c][i + 1] = EvInvalidate
                   ELSE /\ i = Len(log[c])
                        /\ pc[c] = "done"
                        /\ Raised(c) = IF s = 429 THEN "RateLimitError"
                                       ELSE IF s >= 500 THEN "ServerError"
                                       ELSE "EloverblikError"

\* 404 on the retry after a 401: the base class
C11_Witness ==
    /\ pc[1] = "done"
    /\ Len(Responses(log[1])) = 2
    /\ Responses(log[1])[1].status = <<401>>
    /\ Responses(log[1])[2].status = <<404>>
    /\ Raised(1) = "EloverblikError"

(***************************************************************************)
(* C12.  As claimed: the base EloverblikError raised for a non-success     *)
(* HTTP status carries that status as its error_code and the raw response  *)
(* body as its response_text.                                              *)
(***************************************************************************)
C12_Original ==
    \A c \in Observed :
        (/\ pc[c] = "done"
         /\ log[c] # <<>> /\ log[c][Len(log[c])].ev = "response"
         /\ response[c][1].net
         /\ ~(response[c][1].status >= 200 /\ response[c][1].status <= 299)
         /\ Raised(c) = "EloverblikError")
        => /\ outcome[c][1].value.error_code = <<response[c][1].status>>
           /\ outcome[c][1].value.response_text = RawText(response[c][1].body)

(***************************************************************************)
(* C13.  As claimed: every failed token exchange that was not answered 401 *)
(* makes the call fail with ServerError, also a transport failure, an      *)
(* undecodable body and a body without "result".                           *)
(***************************************************************************)
C13_Original ==
    \A c \in Observed :
        \A i \in 1..Len(log[c]) :
            (log[c][i].ev = "exchange_failed" /\ log[c][i].status # <<401>>)
            => Raised(c) = "ServerError"

(***************************************************************************)
(* C14.  As claimed: every finished _request returned a decoded JSON       *)
(* mapping or a raw text, or raised one of AuthenticationError,            *)
(* RateLimitError, ServerError, EloverblikError.                           *)
(***************************************************************************)
C14_Original ==
    \A c \in Observed :
        (pc[c] = "done" /\ op[c] = "request")
        => \/ /\ outcome[c][1].kind = "return"
              /\ outcome[c][1].value.j \in {"obj", "text"}
           \/ Raised(c) \in {"AuthenticationError", "RateLimitError", "ServerError",
                             "EloverblikError"}

(***************************************************************************)
(* C15.  A call never has more than two dispatches, one invalidation and   *)
(* two token exchanges, and when it has a second dispatch the first answer *)
(* it got was a 401, received between the two dispatches.                  *)
(***************************************************************************)
C15_BoundedWork ==
    \A c \in Observed :
        /\ NumEv(log[c], "dispatch") <= 2
        /\ NumEv(log[c], "invalidate") <= 1
        /\ NumEv(log[c], "exchange") <= 2
        /\ NumEv(log[c], "dispatch") = 2
           => \E i, j, k \in 1..Len(log[c]) :
                 /\ i < j /\ j < k
                 /\ log[c][i].ev = "dispatch"
                 /\ IsResponse(log[c][j], 401)
                 /\ NumEv(SubSeq(log[c], 1, j - 1), "response") = 0
                 /\ log[c][k].ev = "dispatch"

\* a finished call that used the whole budget: two exchanges, one
\* invalidation, two dispatches
C15_Witness ==
    /\ pc[1] = "done"
    /\ NumEv(log[1], "dispatch") = 2
    /\ NumEv(log[1], "exchange") = 2
    /\ NumEv(log[1], "invalidate") = 1
    /\ NumEv(log[1], "response") = 2

(***************************************************************************)
(* C16.  The events of a call are ordered.  A dispatch is the call's first *)
(* event only when its acquire returned the cached token at the start;     *)
(* every other dispatch comes right after the call's own exchange returned *)
(* and carries that token.  A dispatch that follows an answer follows, in  *)
(* this order, the 401, the invalidation, the start of the exchange and    *)
(* its return.  Every answer follows a dispatch.                           *)
(***************************************************************************)
C16_EventOrder ==
    /\ [](\A c \in Observed :
            \A k \in 1..Len(log[c]) :
                /\ log[c][k].ev = "dispatch" /\ k > 1
                   => /\ k >= 3
                      /\ log[c][k - 1] = EvFetched(log[c][k].tok)
                      /\ log[c][k - 2] = EvExchange
                      /\ k > 3 => /\ k >= 6
                                  /\ log[c][k - 3] = EvInvalidate
                                  /\ IsResponse(log[c][k - 4], 401)
                                  /\ log[c][k - 5].ev = "dispatch"
                /\ log[c][k].ev = "response"
                   => k > 1 /\ log[c][k - 1].ev = "dispatch")
    /\ [][\A c \in Observed :
            (pc'[c] = "await_api" /\ pc[c] # "await_api" /\ Len(log'[c]) = 1)
            => /\ Started(c)
               /\ access_token \in Tokens
               /\ token_expiry > now + 60
               /\ log'[c] = <<EvDispatch(access_token)>>]_vars

\* the retry has been dispatched after the 401, the invalidation and the
\* call's second exchange
C16_Witness ==
    /\ pc[1] = "await_api"
    /\ log[1] = <<EvExchange, EvFetched(TOpaque), EvDispatch(TOpaque),
                  EvResponse(Http(401, CtJson, BCsv)), EvInvalidate,
                  EvExchange, EvFetched(T64), EvDispatch(T64)>>

(***************************************************************************)
(* C17.  As claimed: every token string that a successful                  *)
(* _get_access_token returns, from the cache or just fetched, has a        *)
(* decoded expiry more than 60 seconds after the moment of return.         *)
(***************************************************************************)
C17_Original ==
    [][\A c \in Observed :
        (AcquireReturned(c) /\ ReturnedToken(c) \in Tokens)
        => ExpectedExpiry(ReturnedToken(c)) > now + 60]_vars

(***************************************************************************)
(* C17, amended.  A token string returned from the cache has a decoded     *)
(* expiry more than 60 seconds after the moment of return.  A token just   *)
(* fetched is cached with its decoded expiry and returned whatever that    *)
(* expiry is, also when it is 0 or within the margin.                      *)
(***************************************************************************)
C17_ReturnedTokenExpiry ==
    [][\A c \in Observed :
        (AcquireReturned(c) /\ ReturnedToken(c) \in Tokens)
        => IF Started(c)
           THEN /\ ReturnedToken(c) = access_token
                /\ ExpectedExpiry(ReturnedToken(c)) > now + 60
           ELSE /\ log'[c][Len(log[c]) + 1] = EvFetched(ReturnedToken(c))
                /\ access_token' = ReturnedToken(c)
                /\ token_expiry' = ExpectedExpiry(ReturnedToken(c))]_vars

\* a direct acquire has returned a fetched token whose expiry cannot be
\* decoded and is stored as 0
C17_Witness ==
    /\ pc[1] = "done" /\ op[1] = "acquire"
    /\ log[1] = <<EvExchange, EvFetched(TOpaque)>>
    /\ outcome[1] = Return(TOpaque)
    /\ access_token = TOpaque /\ token_expiry = 0

(***************************************************************************)
(* C18.  As claimed: no step writes one of the two cache fields without    *)
(* the other: after every step that changes the cache, the stored expiry   *)
(* is the one of the stored token (0 when no token is stored).             *)
(***************************************************************************)
C18_Original ==
    [][\/ access_token' = access_token /\ token_expiry' = token_expiry
       \/ token_expiry' = ExpectedExpiry(access_token')]_vars

(***************************************************************************)
(* C18, amended.  In every state a cached non-empty token is paired with   *)
(* the expiry decoded from it.  A step that changes the cache either       *)
(* stores a token together with its decoded expiry, or is the invalidation *)
(* of a first-attempt 401, which clears the token and leaves the stored    *)
(* expiry as it was.                                                       *)
(***************************************************************************)
C18_CachePairing ==
    /\ [](access_token \in Tokens => token_expiry = ExpectedExpiry(access_token))
    /\ [][\/ access_token' = access_token /\ token_expiry' = token_expiry
          \/ /\ token_expiry' = ExpectedExpiry(access_token')
             /\ \E c \in Calls : pc[c] = "await_token" /\ pc'[c] # "await_token"
          \/ /\ access_token' = None
             /\ token_expiry' = token_expiry
             /\ \E c \in Calls :
                   /\ pc[c] = "await_api" /\ pc'[c] = "await_token"
                   /\ retry_auth[c] /\ ~retry_auth'[c]]_vars

\* call 1 has invalidated a cached token after a 401: no token, the expiry
\* of the cleared token still stored
C18_Witness ==
    /\ access_token = None /\ token_expiry = 62
    /\ pc[1] = "await_token"
    /\ log[1] = <<EvDispatch(T62), EvResponse(Http(401, CtJson, BCsv)), EvInvalidate,
                  EvExchange>>

(***************************************************************************)
(* C19.  As claimed: once the client has been shut down no token is cached *)
(* any more.                                                               *)
(***************************************************************************)
C19_Original == closed => access_token \notin Tokens

(***************************************************************************)
(* C20.  Two concurrent _request calls that both find the cached token     *)
(* absent or stale: each one that starts on such a cache sends its own     *)
(* token exchange; a call whose exchange completes dispatches with the     *)
(* token that exchange returned, which is stored together with its own     *)
(* expiry in the same step; and while both calls are waiting for the       *)
(* target endpoint on their first attempt the cache holds the token and    *)
(* the expiry of one of the two, never the token of one beside the expiry  *)
(* of the other.                                                           *)
(***************************************************************************)
C20_ConcurrentRefresh ==
    /\ [](\A c \in Calls : \A d \in Calls \ {c} :
            (/\ pc[c] = "await_api" /\ retry_auth[c]
             /\ pc[d] = "await_api" /\ retry_auth[d])
            => \E e \in {c, d} :
                  /\ access_token = bearer[e]
                  /\ token_expiry = ExpectedExpiry(bearer[e]))
    /\ [][\A c \in Calls :
            /\ (/\ Started(c) /\ op'[c] = "request"
                /\ ~(Truthy(access_token) /\ token_expiry > now + Margin))
               => pc'[c] = "await_token"
            /\ (pc[c] = "await_token" /\ pc'[c] = "await_api")
               => /\ bearer'[c] = access_token'
                  /\ token_expiry' = ExpectedExpiry(bearer'[c])]_vars

\* both calls are waiting for the target endpoint on their first attempt,
\* each with the token of its own exchange: call 1 fetched T64, and call 2
\* holds a token without expiry, which is never served from the cache; the
\* cache holds the pair of call 2, whose exchange completed last
C20_Witness ==
    /\ log[1] = <<EvExchange, EvFetched(T64), EvDispatch(T64)>>
    /\ pc[2] = "await_api" /\ retry_auth[2]
    /\ bearer[2] = TOpaque
    /\ access_token = TOpaque
    /\ token_expiry = 0

(***************************************************************************)
(* C21.  Only a first-attempt 401 touches the cache or leads to another    *)
(* dispatch.  When the target endpoint answers a call with anything else   *)
(* (a success status with any body, 429, 5xx, another non-success status,  *)
(* a 401 on the retry, no answer at all) the call ends in that step with   *)
(* the cached token and the cached expiry exactly as they were and with no *)
(* new dispatch; a first-attempt 401 clears the cached token.  For every   *)
(* call, a step that ends a pending request leaves the cache untouched.    *)
(***************************************************************************)
C21_OnlyFirst401Invalidates ==
    [][/\ \A c \in Observed :
            ApiAnswered(c) =>
              LET r == response'[c][1] IN
              IF r.net /\ r.status = 401 /\ retry_auth[c]
              THEN /\ access_token' = None
                   /\ NumEv(log'[c], "invalidate") = NumEv(log[c], "invalidate") + 1
              ELSE /\ access_token' = access_token
                   /\ token_expiry' = token_expiry
                   /\ pc'[c] = "done"
                   /\ NumEv(log'[c], "dispatch") = NumEv(log[c], "dispatch")
                   /\ NumEv(log'[c], "invalidate") = NumEv(log[c], "invalidate")
       /\ \A c \in Calls :
            (pc[c] = "await_api" /\ pc'[c] # "await_api")
            => \/ /\ pc'[c] = "done"
                  /\ access_token' = access_token
                  /\ token_expiry' = token_expiry
               \/ /\ pc'[c] = "await_token"
                  /\ retry_auth[c] /\ ~retry_auth'[c]
                  /\ access_token' = None
                  /\ token_expiry' = token_expiry]_vars

\* call 1 was answered 401 twice; the token fetched for the retry is still
\* cached, with its expiry, after the second 401
C21_Witness ==
    /\ pc[1] = "done"
    /\ log[1] = <<EvExchange, EvFetched(T62), EvDispatch(T62),
                  EvResponse(Http(401, CtJson, BCsv)), EvInvalidate,
                  EvExchange, EvFetched(T64), EvDispatch(T64),
                  EvResponse(Http(401, CtJson, BCsv))>>
    /\ pc[2] = "idle"
    /\ access_token = T64
    /\ token_expiry = 64

(***************************************************************************)
(* C22.  As claimed: a call that ended on a success-status answer with a   *)
(* JSON content type and a decodable body failed if and only if the body   *)
(* is a mapping whose success flag is present and false; in every other    *)
(* case (flag absent, true, null, or a body that is not a mapping) it      *)
(* returned the decoded body unchanged.                                    *)
(***************************************************************************)
C22_Original ==
    \A c \in Observed :
        (/\ pc[c] = "done"
         /\ response[c] # <<>>
         /\ response[c][1].net
         /\ IsSuccess(response[c][1].status)
         /\ response[c][1].ctype \in JsonTypes
         /\ response[c][1].body.json.j # "invalid")
        => LET data == response[c][1].body.json IN
           IF data.j = "obj" /\ data.success = "false"
           THEN Raised(c) = "EloverblikError"
           ELSE outcome[c] = Return(data)

(***************************************************************************)
(* C23.  As claimed: _decode_token_expiry never raises; it gives the exp   *)
(* claim of a token with at least two segments whose middle segment is the *)
(* base64url form of a JSON object with a numeric exp, and 0 for every     *)
(* other token (fewer than two segments, a middle segment that is not      *)
(* valid base64url, not JSON, not an object, without a usable exp); and a  *)
(* token cached with expiry 0 is never returned from the cache.            *)
(***************************************************************************)
C23_Original ==
    /\ pc[1] = "done" => outcome[1][1].kind = "return"
    /\ access_token.j = "str" =>
         token_expiry =
            IF Len(access_token.segs) >= 2 /\ access_token.segs[2] \in {"exp62", "exp64"}
            THEN ExpOf(access_token.segs[2])
            ELSE 0
    /\ (pc[1] = "done" /\ log[1] = <<>>) => token_expiry # 0

(***************************************************************************)
(* C24.  Every _request call terminates when each HTTP operation it awaits *)
(* completes: a call waiting for the token endpoint or the target endpoint *)
(* eventually ends with a result or a failure.  The retry is entered at    *)
(* most once: an answer to the retry attempt always ends the call, and a   *)
(* call never has more than two token exchanges and two dispatches.        *)
(***************************************************************************)
C24_Termination ==
    /\ [](\A c \in Observed :
            /\ NumEv(log[c], "exchange") <= 2
            /\ NumEv(log[c], "dispatch") <= 2
            /\ NumEv(log[c], "invalidate") <= 1)
    /\ [][\A c \in Calls :
            (pc[c] = "await_api" /\ ~retry_auth[c] /\ pc'[c] # "await_api")
            => pc'[c] = "done"]_vars
    /\ \A c \in Calls :
         (op[c] = "request" /\ pc[c] \in {"await_token", "await_api"}) ~> (pc[c] = "done")

\* call 1 has ended after two token exchanges and two dispatches, on a 429
\* to the retry
C24_Witness ==
    /\ pc[1] = "done"
    /\ log[1] = <<EvExchange, EvFetched(T62), EvDispatch(T62),
                  EvResponse(Http(401, CtJson, BCsv)), EvInvalidate,
                  EvExchange, EvFetched(TOpaque), EvDispatch(TOpaque),
                  EvResponse(Http(429, CtJson, BCsv))>>
    /\ Raised(1) = "RateLimitError"

(***************************************************************************)
(* C25.  The refresh token is set at construction and no step of any       *)
(* operation (acquire, request, retry, failure, close) changes it; every   *)
(* pending token exchange presents exactly that credential.                *)
(***************************************************************************)
C25_CredentialImmutable ==
    /\ [](\A c \in Calls :
            /\ pc[c] = "await_token" => presented[c] = <<refresh_token>>
            /\ pc[c] # "await_token" => presented[c] = <<>>)
    /\ [][refresh_token' = refresh_token]_vars

\* the client built with "rt2" has been closed while the exchange of call 1's
\* retry is pending, and that exchange presents "rt2"
C25_Witness ==
    /\ refresh_token = "rt2"
    /\ closed
    /\ pc[1] = "await_token" /\ ~retry_auth[1]
    /\ presented[1] = <<"rt2">>

(***************************************************************************)
(* C26.  Cancelling a call while it is suspended on network I/O writes     *)
(* nothing to the token cache.  The step that sends a call's first         *)
(* exchange and the cancellation of the pending exchange both leave token  *)
(* and expiry as they are, so the cancelled call has written nothing since *)
(* before its exchange started.  An acquire that precedes a dispatch       *)
(* either leaves the cache alone (hit) or stores the fetched token with    *)
(* its own expiry in one step, and the cancellation of the pending         *)
(* dispatch leaves token and expiry as they are.  The cancelled call ends  *)
(* with CancelledError, and in every state a cached token string sits      *)
(* beside its own expiry.                                                  *)
(***************************************************************************)
C26_CancelLeavesCache ==
    /\ [](access_token.j = "str" => token_expiry = ExpectedExpiry(access_token))
    /\ [][\A c \in Observed :
            (/\ pc[c] \in {"await_token", "await_api"}
             /\ log'[c] = Append(log[c], EvCancelled))
            => /\ access_token' = access_token
               /\ token_expiry' = token_expiry
               /\ pc'[c] = "done"
               /\ RaisedIn(outcome'[c]) = "CancelledError"]_vars
    /\ [][\A c \in Calls :
            /\ (Started(c) /\ pc'[c] = "await_token")
               => access_token' = access_token /\ token_expiry' = token_expiry
            /\ (Started(c) /\ pc'[c] = "await_api")
               => /\ access_token' = access_token /\ token_expiry' = token_expiry
                  /\ bearer'[c] = access_token
            /\ (TokenAnswered(c) /\ pc'[c] = "await_api")
               => /\ access_token' = bearer'[c]
                  /\ token_expiry' = ExpectedExpiry(bearer'[c])]_vars

\* call 1 found the cached T62 stale, sent an exchange and was cancelled
\* while it was pending: T62 and its expiry are still cached
C26_Witness ==
    /\ pc[1] = "done"
    /\ log[1] = <<EvExchange, EvCancelled>>
    /\ Raised(1) = "CancelledError"
    /\ access_token = T62
    /\ token_expiry = 62
    /\ now = 2

(***************************************************************************)
(* C27.  A failed token exchange (401, another non-success status, or any  *)
(* other failure of the exchange) ends the call and leaves the cached      *)
(* token and the cached expiry exactly as they were.  A token that is      *)
(* absent or stale is never served: every call that starts on such a cache *)
(* sends a new exchange and leaves the cache as it is.                     *)
(***************************************************************************)
C27_FailedExchangeKeepsCache ==
    [][/\ \A c \in Observed :
            (/\ TokenAnswered(c)
             /\ log'[c][Len(log'[c])].ev = "exchange_failed")
            => /\ access_token' = access_token
               /\ token_expiry' = token_expiry
               /\ pc'[c] = "done"
               /\ outcome'[c][1].kind = "raise"
       /\ \A c \in Calls :
            /\ (pc[c] = "await_token" /\ op[c] = "request" /\ pc'[c] = "done")
               => access_token' = access_token /\ token_expiry' = token_expiry
            /\ (Started(c) /\ ~(Truthy(access_token) /\ token_expiry > now + Margin))
               => /\ pc'[c] = "await_token"
                  /\ access_token' = access_token /\ token_expiry' = token_expiry]_vars

\* call 1 found the cached T62 stale and its exchange was answered 500: T62
\* and its expiry are still cached
C27_Witness ==
    /\ pc[1] = "done"
    /\ log[1] = <<EvExchange, EvExchangeFailed(Http(500, CtJson, BCsv))>>
    /\ Raised(1) = "ServerError"
    /\ access_token = T62
    /\ token_expiry = 62
    /\ now = 2

(***************************************************************************)
(* C28.  As claimed: when the token exchange sent for the retry is         *)
(* answered 401, the call fails with AuthenticationError after exactly one *)
(* dispatch and the cache is left with no token.                           *)
(***************************************************************************)
C28_Original ==
    [][\A c \in Observed :
        RetryExchangeRejected(c)
        => /\ pc'[c] = "done"
           /\ RaisedIn(outcome'[c]) = "AuthenticationError"
           /\ NumEv(log'[c], "dispatch") = 1
           /\ access_token' = None]_vars

(***************************************************************************)
(* C28, amended.  When the token exchange sent for the retry is answered   *)
(* 401, the call fails with AuthenticationError after exactly one          *)
(* dispatch, and that step writes nothing to the cache.  The first 401     *)
(* cleared the cached token, and while the retry's exchange is pending the *)
(* cached token changes only when another call's exchange completes or     *)
(* another call's first 401 clears it: the cache is left with no token     *)
(* unless a concurrent call has stored one.                                *)
(* A call that starts on a cache without token sends an exchange.          *)
(***************************************************************************)
C28_RetryExchangeRejected ==
    [][/\ \A c \in Observed :
            /\ RetryExchangeRejected(c)
               => /\ pc'[c] = "done"
                  /\ RaisedIn(outcome'[c]) = "AuthenticationError"
                  /\ NumEv(log'[c], "dispatch") = 1
                  /\ access_token' = access_token
                  /\ token_expiry' = token_expiry
            /\ (ApiAnswered(c) /\ pc'[c] = "await_token") => access_token' = None
            /\ (/\ pc[c] = "await_token" /\ ~retry_auth[c]
                /\ pc'[c] = "await_token"
                /\ access_token' # access_token)
               => \E d \in Calls \ {c} :
                     \/ pc[d] = "await_token" /\ pc'[d] # "await_token"
                     \/ /\ pc[d] = "await_api" /\ pc'[d] = "await_token"
                        /\ access_token' = None
       /\ \A c \in Calls :
            (Started(c) /\ access_token = None) => pc'[c] = "await_token"]_vars

\* call 1 has failed on the 401 to its retry's exchange while call 2 did
\* nothing: no token is cached
C28_Witness ==
    /\ pc[1] = "done"
    /\ log[1] = <<EvExchange, EvFetched(T64), EvDispatch(T64),
                  EvResponse(Http(401, CtJson, BCsv)), EvInvalidate,
                  EvExchange, EvExchangeFailed(Http(401, CtJson, BCsv))>>
    /\ Raised(1) = "AuthenticationError"
    /\ pc[2] = "idle"
    /\ access_token = None
    /\ token_expiry = 64

(***************************************************************************)
(* C29.  As claimed: when a call has been answered 401 on both attempts,   *)
(* the token it fetched for the retry is cached with its decoded expiry;   *)
(* and a _request call started while a cached token's expiry is more than  *)
(* 60 seconds away dispatches with it and sends no token exchange before   *)
(* its own first dispatch is answered 401.                                 *)
(***************************************************************************)
C29_Original ==
    /\ [][\A c \in Observed :
            /\ SecondUnauthorized(c)
               => /\ access_token' = LastFetched(log'[c])
                  /\ token_expiry' = ExpectedExpiry(LastFetched(log'[c]))
            /\ (/\ Started(c) /\ op'[c] = "request"
                /\ Truthy(access_token) /\ token_expiry > now + 60)
               => /\ log'[c] = <<EvDispatch(access_token)>>
                  /\ access_token' = access_token /\ token_expiry' = token_expiry]_vars
    /\ [](\A c \in Observed :
            (/\ log[c] # <<>> /\ log[c][1].ev = "dispatch"
             /\ NumEv(log[c], "exchange") > 0)
            => log[c][2] = EvResponse(Http(401, CtJson, BCsv)))

(***************************************************************************)
(* C29, amended.  The second 401 writes nothing: the cache stays as it was *)
(* when that answer arrived.  The retry's exchange stored the fetched      *)
(* token with its decoded expiry, and while the retry's dispatch is        *)
(* pending the cache changes only by a step of another call; so the token  *)
(* fetched for the retry is still cached unless a concurrent call has      *)
(* replaced or cleared it.  A _request call started while a cached token's *)
(* expiry is more than 60 seconds away dispatches with it and sends no     *)
(* token exchange before its own first dispatch is answered 401.           *)
(***************************************************************************)
C29_RejectedTokenStaysCached ==
    /\ [][\A c \in Observed :
            /\ SecondUnauthorized(c)
               => /\ access_token' = access_token /\ token_expiry' = token_expiry
                  /\ pc'[c] = "done"
            /\ (TokenAnswered(c) /\ ~retry_auth[c] /\ pc'[c] = "await_api")
               => /\ access_token' = LastFetched(log'[c])
                  /\ token_expiry' = ExpectedExpiry(LastFetched(log'[c]))
            /\ (/\ pc[c] = "await_api" /\ ~retry_auth[c] /\ pc'[c] = "await_api"
                /\ <<access_token, token_expiry>>' # <<access_token, token_expiry>>)
               => \E d \in Calls \ {c} : pc'[d] # pc[d]
            /\ (/\ Started(c) /\ op'[c] = "request"
                /\ Truthy(access_token) /\ token_expiry > now + 60)
               => /\ log'[c] = <<EvDispatch(access_token)>>
                  /\ access_token' = access_token /\ token_expiry' = token_expiry]_vars
    /\ [](\A c \in Observed :
            (/\ log[c] # <<>> /\ log[c][1].ev = "dispatch"
             /\ NumEv(log[c], "exchange") > 0)
            => log[c][2] = EvResponse(Http(401, CtJson, BCsv)))

\* call 1 has just been answered 401 a second time while call 2 did nothing:
\* T62, fetched for the retry, is cached with its expiry, which is still
\* more than 60 seconds away
C29_Witness ==
    /\ pc[1] = "done"
    /\ log[1] = <<EvExchange, EvFetched(TOpaque), EvDispatch(TOpaque),
                  EvResponse(Http(401, CtJson, BCsv)), EvInvalidate,
                  EvExchange, EvFetched(T62), EvDispatch(T62),
                  EvResponse(Http(401, CtJson, BCsv))>>
    /\ pc[2] = "idle"
    /\ access_token = T62
    /\ token_expiry = 62
    /\ now = 1

(***************************************************************************)
(* C30.  As claimed: every request pending at the target endpoint carries  *)
(* a token; under any interleaving of calls and invalidations no call      *)
(* dispatches with an absent token.                                        *)
(***************************************************************************)
C30_Original ==
    \A c \in Calls : pc[c] = "await_api" => bearer[c] \in Tokens

(***************************************************************************)
(* C31.  The invalidation on a first-attempt 401 clears whatever token is  *)
(* cached at that moment, also when it is not the token that was sent in   *)
(* the rejected request: the step leaves no token cached, keeps the stored *)
(* expiry and sends a new exchange.  A call never has more than two token  *)
(* exchanges and two dispatches.                                           *)
(***************************************************************************)
C31_InvalidationClearsAnyToken ==
    /\ [][/\ \A c \in Observed :
               (/\ ApiAnswered(c) /\ retry_auth[c]
                /\ response'[c] = <<Http(401, CtJson, BCsv)>>)
               => /\ access_token' = None
                  /\ token_expiry' = token_expiry
                  /\ pc'[c] = "await_token"
                  /\ log'[c] = log[c] \o <<EvResponse(Http(401, CtJson, BCsv)),
                                           EvInvalidate, EvExchange>>
          /\ \A c \in Calls :
               (pc[c] = "await_api" /\ pc'[c] = "await_token")
               => /\ access_token' = None
                  /\ token_expiry' = token_expiry]_vars
    /\ [](\A c \in Observed :
            /\ NumEv(log[c], "exchange") <= 2
            /\ NumEv(log[c], "dispatch") <= 2)

\* call 1 sent T62 and its 401 arrived late: call 2, still waiting on its
\* first attempt, holds the newer T64, whose expiry 64 is the one left in
\* the cache, and call 1's invalidation has cleared it
C31_Witness ==
    /\ log[1] = <<EvExchange, EvFetched(T62), EvDispatch(T62),
                  EvResponse(Http(401, CtJson, BCsv)), EvInvalidate, EvExchange>>
    /\ pc[1] = "await_token"
    /\ pc[2] = "await_api" /\ retry_auth[2]
    /\ bearer[2] = T64
    /\ access_token = None
    /\ token_expiry = 64

(***************************************************************************)
(* C32.  Last writer wins.  Every token exchange that completes with       *)
(* success stores its own token and that token's expiry, whatever the      *)
(* cache held, also when the stored expiry is sooner than the one it       *)
(* replaces.  The cache changes in no other step than a completing         *)
(* exchange and an invalidation, which clears the token and keeps the      *)
(* expiry: without a later invalidation the cached token is the result of  *)
(* the exchange that completed last.                                       *)
(***************************************************************************)
C32_LastWriterWins ==
    [][/\ \A c \in Observed :
            (TokenAnswered(c) /\ log'[c][Len(log'[c])].ev \in {"fetched", "dispatch"})
            => /\ access_token' = LastFetched(log'[c])
               /\ token_expiry' = ExpectedExpiry(LastFetched(log'[c]))
       /\ \A c \in Calls :
            (TokenAnswered(c) /\ pc'[c] = "await_api")
            => /\ access_token' = bearer'[c]
               /\ token_expiry' = ExpectedExpiry(bearer'[c])
       /\ (<<access_token, token_expiry>>' # <<access_token, token_expiry>>)
          => \E c \in Calls :
                \/ TokenAnswered(c)
                \/ /\ pc[c] = "await_api" /\ pc'[c] = "await_token"
                   /\ access_token' = None
                   /\ token_expiry' = token_expiry]_vars

\* call 1's exchange was in flight while T64 was fetched and cached (call 2
\* dispatched with it and still waits on its first attempt); call 1's
\* exchange completed last with T62, which expires sooner, and T62 with its
\* expiry is what the cache holds
C32_Witness ==
    /\ log[1] = <<EvExchange, EvFetched(T62), EvDispatch(T62)>>
    /\ pc[1] = "await_api"
    /\ pc[2] = "await_api" /\ retry_auth[2]
    /\ bearer[2] = T64
    /\ access_token = T62
    /\ token_expiry = 62

====
